---- MODULE Spec2Model ----
(***************************************************************************)
(* Address validator: the Smarty provider adapter (SmartyAddressProvider), *)
(* its status classifier and address normalizer, the circuit breaker it    *)
(* fires its provider calls through, AddressValidationService, the handler *)
(* of POST /validate-address with the error handler, and the startup       *)
(* configuration and shutdown of the process.                              *)
(*                                                                         *)
(* Strings are sequences of one-character strings over Alphabet.           *)
(***************************************************************************)
EXTENDS Integers, Sequences, FiniteSets, TLC

\* ------------------------------------------------------------------------
\* Bounds of the model
\* ------------------------------------------------------------------------
\* longest caller input drawn in the classifier specification
MaxLen == 2
\* longest deliveryLine1 drawn in the classifier specification
MaxLineLen == 1
\* concurrent validation requests
NumRequests == 2
\* calls counted in one evaluation window of the breaker
MaxCount == 3
\* milliseconds of model time that pass in one Tick
TickMs == 10000
\* longest string drawn in the normalizer specification
MaxNormLen == 3
\* longest text of an environment variable
MaxEnvLen == 2
\* requests served by one process
MaxServed == 2

\* ------------------------------------------------------------------------
\* Configuration (loadConfig defaults)
\* ------------------------------------------------------------------------
\* CIRCUIT_BREAKER_TIMEOUT: the breaker's per-call timeout, ms
timeout == 10000
\* CIRCUIT_BREAKER_ERROR_THRESHOLD, percent
errorThresholdPercentage == 50
\* CIRCUIT_BREAKER_RESET_TIMEOUT, ms
resetTimeout == 30000

\* ------------------------------------------------------------------------
\* Strings
\* ------------------------------------------------------------------------
\* one lower-case letter, one upper-case letter, a digit, the underscore
\* (a \w character that is neither letter nor digit), a blank and a
\* punctuation character
Alphabet == {"a", "A", "1", "_", " ", ","}

StringsUpTo(n) == UNION {[1..k -> Alphabet] : k \in 0..n}

\* String.prototype.toLowerCase, per character
toLowerCase(c) == IF c = "A" THEN "a" ELSE c

\* the regular-expression class \w: [A-Za-z0-9_]
IsWordChar(c) == c \in {"a", "A", "1", "_"}

\* the regular-expression class \s: the blank and the tab stand for it
IsSpaceChar(c) == c \in {" ", "\t"}

\* a replacement that treats the underscore as punctuation
ReplacePunctuation_underscoreToo(s) ==
  [i \in 1..Len(s) |->
     IF (IsWordChar(s[i]) /\ s[i] # "_") \/ IsSpaceChar(s[i]) THEN s[i] ELSE " "]

\* .replace(/[^\w\s]/g, ' ')
ReplacePunctuation(s) ==
  [i \in 1..Len(s) |-> IF IsWordChar(s[i]) \/ IsSpaceChar(s[i]) THEN s[i] ELSE " "]

\* a replacement that turns each whitespace character into a blank and keeps
\* the runs
CollapseSpaces_keepRuns(s) ==
  [i \in 1..Len(s) |-> IF IsSpaceChar(s[i]) THEN " " ELSE s[i]]

\* .replace(/\s+/g, ' ')
RECURSIVE CollapseSpaces(_)
CollapseSpaces(s) ==
  IF Len(s) = 0 THEN <<>>
  ELSE IF IsSpaceChar(s[1])
       THEN IF Len(s) > 1 /\ IsSpaceChar(s[2])
            THEN CollapseSpaces(Tail(s))
            ELSE <<" ">> \o CollapseSpaces(Tail(s))
       ELSE <<s[1]>> \o CollapseSpaces(Tail(s))

RECURSIVE TrimStart(_)
TrimStart(s) ==
  IF Len(s) > 0 /\ IsSpaceChar(s[1]) THEN TrimStart(Tail(s)) ELSE s

RECURSIVE TrimEnd(_)
TrimEnd(s) ==
  IF Len(s) > 0 /\ IsSpaceChar(s[Len(s)])
  THEN TrimEnd(SubSeq(s, 1, Len(s) - 1))
  ELSE s

\* String.prototype.trim
Trim(s) == TrimEnd(TrimStart(s))

\* a normalizer that trims before it replaces punctuation
normalizeAddressForComparison_trimFirst(address) ==
  CollapseSpaces(ReplacePunctuation(
    Trim([i \in 1..Len(address) |-> toLowerCase(address[i])])))

\* SmartyAddressProvider.normalizeAddressForComparison
normalizeAddressForComparison(address) ==
  Trim(CollapseSpaces(ReplacePunctuation(
         [i \in 1..Len(address) |-> toLowerCase(address[i])])))

\* ------------------------------------------------------------------------
\* Candidates and the status classifier
\* ------------------------------------------------------------------------
\* dpvMatchCode values: the four codes of the table, the empty string and a
\* value outside the table
MatchCodes == {"Y", "S", "D", "N", "", "X"}

\* deliveryLine1 + (deliveryLine2 ? ` ${deliveryLine2}` : '') + `, ${lastLine}`
\* (an empty deliveryLine2 is falsy)
StandardizedFull(candidate) ==
  candidate.deliveryLine1
    \o (IF candidate.deliveryLine2 # <<>>
        THEN <<" ">> \o candidate.deliveryLine2 ELSE <<>>)
    \o <<",", " ">> \o candidate.lastLine

\* SmartyAddressProvider.hasAddressCorrections
hasAddressCorrections(originalInput, candidate) ==
  normalizeAddressForComparison(originalInput)
    # normalizeAddressForComparison(StandardizedFull(candidate))

\* an extractCorrections that compares the texts as they are
extractCorrections_rawComparison(original, candidate) ==
  IF original # StandardizedFull(candidate)
  THEN <<[field |-> "address", original |-> original,
          corrected |-> StandardizedFull(candidate)]>>
  ELSE <<>>

\* SmartyAddressProvider.extractCorrections (the revision whose results carry
\* a corrections list)
extractCorrections(original, candidate) ==
  LET standardizedFull == StandardizedFull(candidate)
      normalizedOriginal == normalizeAddressForComparison(original)
      normalizedStandardized == normalizeAddressForComparison(standardizedFull)
  IN IF normalizedOriginal # normalizedStandardized
     THEN <<[field |-> "address", original |-> original, corrected |-> standardizedFull]>>
     ELSE <<>>

\* the switch on dpvMatchCode
BaseStatus(dpvMatchCode) ==
  CASE dpvMatchCode = "Y" -> "valid"
    [] dpvMatchCode = "S" -> "corrected"
    [] dpvMatchCode = "D" -> "unverifiable"
    [] OTHER -> "invalid"

\* a classifier that promotes every base status, not only valid
determineValidationStatus_promoteAll(candidate, originalInput) ==
  IF ~candidate.hasAnalysis THEN "invalid"
  ELSE IF hasAddressCorrections(originalInput, candidate)
       THEN "corrected"
       ELSE BaseStatus(candidate.dpvMatchCode)

\* a classifier that never promotes
determineValidationStatus_noPromotion(candidate, originalInput) ==
  IF ~candidate.hasAnalysis THEN "invalid"
  ELSE BaseStatus(candidate.dpvMatchCode)

\* a classifier whose table maps S to valid
determineValidationStatus_sIsValid(candidate, originalInput) ==
  IF ~candidate.hasAnalysis THEN "invalid"
  ELSE IF candidate.dpvMatchCode \in {"Y", "S"}
       THEN IF candidate.dpvMatchCode = "Y"
               /\ hasAddressCorrections(originalInput, candidate)
            THEN "corrected" ELSE "valid"
       ELSE BaseStatus(candidate.dpvMatchCode)

\* SmartyAddressProvider.determineValidationStatus
determineValidationStatus(candidate, originalInput) ==
  IF ~candidate.hasAnalysis THEN "invalid"
  ELSE LET baseStatus == BaseStatus(candidate.dpvMatchCode)
       IN IF baseStatus = "valid" /\ hasAddressCorrections(originalInput, candidate)
          THEN "corrected"
          ELSE baseStatus


\* ------------------------------------------------------------------------
\* Errors: the attributes handleAndThrowError probes (class for instanceof,
\* code, 'timeout' in error, message.includes('timeout')), the message, and
\* the context of the domain errors
\* ------------------------------------------------------------------------
DomainErrorClasses ==
  {"InvalidAddressError", "CircuitBreakerError", "TimeoutError", "ExternalServiceError"}

\* the AppError subclasses that are thrown while a request is handled
AppErrorClasses == DomainErrorClasses \cup {"InvalidRequestError"}

NoError ==
  [class |-> "none", code |-> "", timeoutProp |-> FALSE, msgTimeout |-> FALSE,
   message |-> "", originalAddress |-> <<>>, reason |-> ""]

\* the message of a plain Error: the breaker's two rejections, an SDK error
\* whose message mentions 'timeout', and any other SDK error
RawMessage(code, msgTimeout) ==
  IF code = "EOPENBREAKER" THEN "Breaker is open"
  ELSE IF code = "ETIMEDOUT" THEN "Timed out after 10000ms"
  ELSE IF msgTimeout THEN "Request timeout"
  ELSE "SDK connection failed"

\* a plain Error rejected by the breaker or the provider SDK
RawError(code, timeoutProp, msgTimeout) ==
  [class |-> "Error", code |-> code, timeoutProp |-> timeoutProp,
   msgTimeout |-> msgTimeout, message |-> RawMessage(code, msgTimeout),
   originalAddress |-> <<>>, reason |-> ""]

\* the message each throw site gives its AppError: the adapter (no
\* candidates, breaker open, timeout, any other failure; the text of the
\* original error that follows 'Smarty API error: ' is left out), the
\* service (input) and the route handler (field, body)
MessageOf(class, reason) ==
  CASE class = "InvalidAddressError" /\ reason = "no_candidates_returned" ->
         "Address could not be validated"
    [] class = "InvalidAddressError" /\ reason = "input" ->
         "Address is required and must be a non-empty string"
    [] class = "InvalidAddressError" /\ reason = "field" ->
         "Address field is required and must be a non-empty string"
    [] class = "InvalidRequestError" -> "Request body is required"
    [] class = "CircuitBreakerError" ->
         "Address validation service is experiencing issues - please try again later"
    [] class = "TimeoutError" -> "Address validation request timed out"
    [] class = "ExternalServiceError" -> "Smarty API error"
    [] OTHER -> ""

\* an AppError subclass with its code, its message and its context
DomainError(class, code, address, reason) ==
  [class |-> class, code |-> code, timeoutProp |-> FALSE, msgTimeout |-> FALSE,
   message |-> MessageOf(class, reason), originalAddress |-> address,
   reason |-> reason]

\* the breaker's rejection while open: Error('Breaker is open'), code EOPENBREAKER
OpenBreakerError == RawError("EOPENBREAKER", FALSE, FALSE)

\* the breaker's rejection when the action outlives options.timeout:
\* Error('Timed out after <timeout>ms'), code ETIMEDOUT, no timeout property
BreakerTimeoutError == RawError("ETIMEDOUT", FALSE, FALSE)

\* rejections of smartyClient.send: an SDK error ('SDK connection failed'), an
\* error whose message mentions 'timeout', an error carrying a timeout property
ProviderErrors ==
  {RawError("", FALSE, FALSE), RawError("", FALSE, TRUE), RawError("", TRUE, TRUE)}

\* handleAndThrowError without the EOPENBREAKER branch
handleAndThrowError_noOpenBranch(error, address) ==
  IF error.class \in DomainErrorClasses THEN error
  ELSE IF error.timeoutProp \/ error.msgTimeout
       THEN DomainError("TimeoutError", "REQUEST_TIMEOUT", address, "")
       ELSE DomainError("ExternalServiceError", "EXTERNAL_SERVICE_ERROR", address, "")

\* handleAndThrowError that rethrows what it cannot classify
handleAndThrowError_rethrowRaw(error, address) ==
  IF error.class \in DomainErrorClasses THEN error
  ELSE IF error.code = "EOPENBREAKER"
       THEN DomainError("CircuitBreakerError", "CIRCUIT_BREAKER_OPEN", address, "")
       ELSE IF error.timeoutProp \/ error.msgTimeout
            THEN DomainError("TimeoutError", "REQUEST_TIMEOUT", address, "")
            ELSE error

\* SmartyAddressProvider.handleAndThrowError: the error it throws
handleAndThrowError(error, address) ==
  IF error.class \in DomainErrorClasses THEN error
  ELSE IF error.code = "EOPENBREAKER"
       THEN DomainError("CircuitBreakerError", "CIRCUIT_BREAKER_OPEN", address, "")
       ELSE IF error.timeoutProp \/ error.msgTimeout
            THEN DomainError("TimeoutError", "REQUEST_TIMEOUT", address, "")
            ELSE DomainError("ExternalServiceError", "EXTERNAL_SERVICE_ERROR", address, "")

\* ------------------------------------------------------------------------
\* The adapter's result
\* ------------------------------------------------------------------------
\* parts.filter(Boolean).join(' ')
RECURSIVE JoinNonEmpty(_)
JoinNonEmpty(parts) ==
  IF Len(parts) = 0 THEN <<>>
  ELSE IF Head(parts) = <<>> THEN JoinNonEmpty(Tail(parts))
       ELSE LET rest == JoinNonEmpty(Tail(parts))
            IN IF rest = <<>> THEN Head(parts) ELSE Head(parts) \o <<" ">> \o rest

\* SmartyAddressProvider.buildStreetName
buildStreetName(components) ==
  JoinNonEmpty(<<components.streetPredirection, components.streetName,
                 components.streetSuffix, components.streetPostdirection>>)

\* SmartyAddressProvider.mapToValidatedAddress
mapToValidatedAddress(cand) ==
  [street  |-> buildStreetName(cand.components),
   number  |-> cand.components.primaryNumber,
   city    |-> cand.components.cityName,
   state   |-> cand.components.state,
   zipcode |-> cand.components.zipCode
                 \o (IF cand.components.plus4Code # <<>>
                     THEN <<"-">> \o cand.components.plus4Code ELSE <<>>)]

NoValidated ==
  [street |-> <<>>, number |-> <<>>, city |-> <<>>, state |-> <<>>, zipcode |-> <<>>]

NoOutcome ==
  [kind |-> "none", status |-> "none", original |-> <<>>,
   hasValidated |-> FALSE, validated |-> NoValidated, error |-> NoError]

\* validateAddress returns an AddressValidationResponse
Returned(status_, address, hasValidated, validated) ==
  [kind |-> "result", status |-> status_, original |-> address,
   hasValidated |-> hasValidated, validated |-> validated, error |-> NoError]

\* validateAddress rejects with an error
Thrown(error) ==
  [kind |-> "error", status |-> "none", original |-> <<>>,
   hasValidated |-> FALSE, validated |-> NoValidated, error |-> error]

\* validateAddress after fire resolved, answering an empty candidate list
\* with a result of status invalid
validateAddressResolved_statusInvalid(address, smartyResponse) ==
  IF Len(smartyResponse) = 0
  THEN Returned("invalid", address, FALSE, NoValidated)
  ELSE LET cand == smartyResponse[1]
       IN Returned(determineValidationStatus(cand, address), address,
                   TRUE, mapToValidatedAddress(cand))

\* validateAddress after fire resolved, leaving the validated address out of
\* a result of status unverifiable
validateAddressResolved_unverifiableBare(address, smartyResponse) ==
  IF Len(smartyResponse) = 0
  THEN Thrown(handleAndThrowError(
         DomainError("InvalidAddressError", "INVALID_ADDRESS", address,
                     "no_candidates_returned"), address))
  ELSE LET cand == smartyResponse[1]
           status_ == determineValidationStatus(cand, address)
       IN IF status_ = "unverifiable"
          THEN Returned(status_, address, FALSE, NoValidated)
          ELSE Returned(status_, address, TRUE, mapToValidatedAddress(cand))

\* validateAddress after fire resolved, taking the last candidate instead of
\* the first
validateAddressResolved_lastCandidate(address, smartyResponse) ==
  IF Len(smartyResponse) = 0
  THEN Thrown(handleAndThrowError(
         DomainError("InvalidAddressError", "INVALID_ADDRESS", address,
                     "no_candidates_returned"), address))
  ELSE LET cand == smartyResponse[Len(smartyResponse)]
       IN Returned(determineValidationStatus(cand, address), address,
                   TRUE, mapToValidatedAddress(cand))

\* SmartyAddressProvider.validateAddress after circuitBreaker.fire resolved
\* with smartyResponse; the InvalidAddressError it throws passes through its
\* own catch block and handleAndThrowError
validateAddressResolved(address, smartyResponse) ==
  IF Len(smartyResponse) = 0
  THEN Thrown(handleAndThrowError(
         DomainError("InvalidAddressError", "INVALID_ADDRESS", address,
                     "no_candidates_returned"), address))
  ELSE LET cand == smartyResponse[1]
       IN Returned(determineValidationStatus(cand, address), address,
                   TRUE, mapToValidatedAddress(cand))

\* validateAddress after fire rejected, answering with a result of status
\* invalid that carries the error
validateAddressRejected_asResult(address, error) ==
  [Returned("invalid", address, FALSE, NoValidated)
     EXCEPT !.error = handleAndThrowError(error, address)]

\* SmartyAddressProvider.validateAddress after circuitBreaker.fire rejected
validateAddressRejected(address, error) ==
  Thrown(handleAndThrowError(error, address))

\* ------------------------------------------------------------------------
\* The HTTP boundary: POST /validate-address and the centralized error handler
\* ------------------------------------------------------------------------
\* AppError.statusCode of the error classes
StatusCodeOf(class) ==
  CASE class = "InvalidAddressError"  -> 400
    [] class = "InvalidRequestError"  -> 400
    [] class = "CircuitBreakerError"  -> 503
    [] class = "TimeoutError"         -> 408
    [] class = "ExternalServiceError" -> 502

\* error.context, kept in the two fields the model gives it
ContextOf(error) == [originalAddress |-> error.originalAddress, reason |-> error.reason]

\* a body without details
NoDetails == [originalAddress |-> <<>>, reason |-> "undefined"]

\* no reply has been sent
NoReply ==
  [kind |-> "none", statusCode |-> 0, status |-> "none", code |-> "",
   message |-> "", details |-> NoDetails]

\* an error handler that treats every error as an unexpected one
errorHandler_unexpected(error) ==
  [kind |-> "error", statusCode |-> 500, status |-> "none",
   code |-> "INTERNAL_SERVER_ERROR", message |-> "An unexpected error occurred",
   details |-> NoDetails]

\* createErrorHandler: an AppError is sent with its own status code, and its
\* code, message and context in the body; an error without a statusCode as
\* 500 INTERNAL_SERVER_ERROR with a fixed message and no details
errorHandler(error) ==
  IF error.class \in AppErrorClasses
  THEN [kind |-> "error", statusCode |-> StatusCodeOf(error.class),
        status |-> "none", code |-> error.code, message |-> error.message,
        details |-> ContextOf(error)]
  ELSE [kind |-> "error", statusCode |-> 500, status |-> "none",
        code |-> "INTERNAL_SERVER_ERROR", message |-> "An unexpected error occurred",
        details |-> NoDetails]

\* a route handler that answers a result of status invalid with 400
sendReply_invalidIs400(outcome) ==
  IF outcome.kind = "result"
  THEN [kind |-> "result",
        statusCode |-> IF outcome.status = "invalid" THEN 400 ELSE 200,
        status |-> outcome.status, code |-> "", message |-> "", details |-> NoDetails]
  ELSE errorHandler(outcome.error)

\* the route handler after validationService.validateAddress settled: it
\* returns the result, which is sent with status code 200, or lets the error
\* reach the error handler
sendReply(outcome) ==
  IF outcome.kind = "result"
  THEN [kind |-> "result", statusCode |-> 200, status |-> outcome.status,
        code |-> "", message |-> "", details |-> NoDetails]
  ELSE errorHandler(outcome.error)

\* ------------------------------------------------------------------------
\* Inputs of the adapter specification
\* ------------------------------------------------------------------------
\* the caller's input: non-empty and trimmed
Addresses == {<<"a">>, <<"a", "1">>}

Components1 ==
  [streetPredirection |-> <<>>, streetName |-> <<"a">>, streetSuffix |-> <<"P">>,
   streetPostdirection |-> <<>>, primaryNumber |-> <<"1">>, cityName |-> <<"M">>,
   state |-> <<"C">>, zipCode |-> <<"9">>, plus4Code |-> <<"1">>]

Candidate(deliveryLine1, dpvMatchCode) ==
  [deliveryLine1 |-> deliveryLine1, deliveryLine2 |-> <<>>, lastLine |-> <<>>,
   hasAnalysis |-> TRUE, dpvMatchCode |-> dpvMatchCode, components |-> Components1]

\* lookup.result || []: no candidate, one candidate, two candidates
Responses ==
  {<<>>,
   <<Candidate(<<"A">>, "Y")>>,
   <<Candidate(<<"a", "1">>, "Y")>>,
   <<Candidate(<<"a", "1">>, "D")>>,
   <<Candidate(<<"a">>, "N")>>,
   <<Candidate(<<"a">>, "")>>,
   <<Candidate(<<"a">>, "X")>>,
   <<Candidate(<<"a">>, "S")>>,
   <<Candidate(<<"a">>, "S"), Candidate(<<"a">>, "Y")>>}

\* ------------------------------------------------------------------------
\* AddressValidationService
\* ------------------------------------------------------------------------
\* a JavaScript value passed as the address argument: what typeof gives for
\* it, whether it is truthy, and its text when it is a string
StringValue(text) ==
  [what |-> "string", typeof |-> "string", truthy |-> text # <<>>, text |-> text]

\* null, undefined, 123, {} and []
OtherValues ==
  {[what |-> "null",      typeof |-> "object",    truthy |-> FALSE, text |-> <<>>],
   [what |-> "undefined", typeof |-> "undefined", truthy |-> FALSE, text |-> <<>>],
   [what |-> "123",       typeof |-> "number",    truthy |-> TRUE,  text |-> <<>>],
   [what |-> "{}",        typeof |-> "object",    truthy |-> TRUE,  text |-> <<>>],
   [what |-> "[]",        typeof |-> "object",    truthy |-> TRUE,  text |-> <<>>]}

ServiceValues == {StringValue(text) : text \in StringsUpTo(MaxLen)} \cup OtherValues

\* what the injected ValidationProviderAdapter does when it is called: it
\* resolves with a result of some status, or rejects with one of the adapter's
\* typed errors or with a plain Error
ProviderBehaviours ==
  {[resolves |-> TRUE, status |-> st, errorClass |-> "none"] :
     st \in {"valid", "corrected", "unverifiable", "invalid"}}
  \cup
  {[resolves |-> FALSE, status |-> "none", errorClass |-> c] :
     c \in DomainErrorClasses \cup {"Error"}}

\* the error a provider of behaviour provider rejects with
ProviderError(provider, address) ==
  CASE provider.errorClass = "InvalidAddressError" ->
         DomainError("InvalidAddressError", "INVALID_ADDRESS", address,
                     "no_candidates_returned")
    [] provider.errorClass = "CircuitBreakerError" ->
         DomainError("CircuitBreakerError", "CIRCUIT_BREAKER_OPEN", address, "")
    [] provider.errorClass = "TimeoutError" ->
         DomainError("TimeoutError", "REQUEST_TIMEOUT", address, "")
    [] provider.errorClass = "ExternalServiceError" ->
         DomainError("ExternalServiceError", "EXTERNAL_SERVICE_ERROR", address, "")
    [] OTHER -> RawError("", FALSE, FALSE)

\* this.provider.validateAddress(address)
providerValidateAddress(provider, address) ==
  IF provider.resolves
  THEN Returned(provider.status, address, TRUE,
                mapToValidatedAddress(Candidate(<<"a">>, "Y")))
  ELSE Thrown(ProviderError(provider, address))

\* no service call has been made
NoServiceCall == [done |-> FALSE, called |-> FALSE, calledWith |-> <<>>, outcome |-> NoOutcome]

\* a service call: whether it called the provider, with what, and its outcome
ServiceCall(called, calledWith, outcome) ==
  [done |-> TRUE, called |-> called, calledWith |-> calledWith, outcome |-> outcome]

\* !address || typeof address !== 'string' || address.trim().length === 0
IsRejectedInput(address) ==
  \/ ~address.truthy
  \/ address.typeof # "string"
  \/ Len(Trim(address.text)) = 0

\* the service revision that answers a bad input with a result of status invalid
serviceValidateAddress_statusInvalid(address, provider) ==
  IF IsRejectedInput(address)
  THEN ServiceCall(FALSE, <<>>, Returned("invalid", address.text, FALSE, NoValidated))
  ELSE ServiceCall(TRUE, Trim(address.text),
                   providerValidateAddress(provider, Trim(address.text)))

\* the service revision that catches every provider error and answers with a
\* result of status invalid
serviceValidateAddress_catchAll(address, provider) ==
  IF IsRejectedInput(address)
  THEN ServiceCall(FALSE, <<>>,
         Thrown(DomainError("InvalidAddressError", "INVALID_ADDRESS", address.text, "input")))
  ELSE IF provider.resolves
       THEN ServiceCall(TRUE, Trim(address.text),
                        providerValidateAddress(provider, Trim(address.text)))
       ELSE ServiceCall(TRUE, Trim(address.text),
                        Returned("invalid", address.text, FALSE, NoValidated))

\* a service that hands the provider the address as it received it
serviceValidateAddress_noTrim(address, provider) ==
  IF IsRejectedInput(address)
  THEN ServiceCall(FALSE, <<>>,
         Thrown(DomainError("InvalidAddressError", "INVALID_ADDRESS", address.text, "input")))
  ELSE ServiceCall(TRUE, address.text, providerValidateAddress(provider, address.text))

\* AddressValidationService.validateAddress; the context of the
\* InvalidAddressError it throws is {originalAddress, validationType: 'input'},
\* kept here in the fields originalAddress and reason
serviceValidateAddress(address, provider) ==
  IF IsRejectedInput(address)
  THEN ServiceCall(FALSE, <<>>,
         Thrown(DomainError("InvalidAddressError", "INVALID_ADDRESS", address.text, "input")))
  ELSE ServiceCall(TRUE, Trim(address.text),
                   providerValidateAddress(provider, Trim(address.text)))

\* the body of a POST /validate-address request: undefined, null, a string, or
\* an object whose address field holds some value (undefined when absent)
HttpBodies ==
  {[what |-> "undefined", typeof |-> "undefined", truthy |-> FALSE,
    address |-> StringValue(<<>>)],
   [what |-> "null", typeof |-> "object", truthy |-> FALSE,
    address |-> StringValue(<<>>)],
   [what |-> "string", typeof |-> "string", truthy |-> TRUE,
    address |-> StringValue(<<>>)]}
  \cup
  {[what |-> "object", typeof |-> "object", truthy |-> TRUE, address |-> v] :
     v \in ServiceValues}

\* no request has been handled
NoHttpCall == [done |-> FALSE, outcome |-> NoOutcome, reply |-> NoReply]

\* a handled request: what the route handler returned or threw, and the reply
HttpCall(outcome) == [done |-> TRUE, outcome |-> outcome, reply |-> sendReply(outcome)]

\* the handler of POST /validate-address: what it returns or throws. The
\* context of its errors ({bodyReceived}, {addressReceived, addressType}) is
\* kept in the fields originalAddress and reason
postValidateAddress(body, provider) ==
  IF ~body.truthy \/ body.typeof # "object"
  THEN Thrown(DomainError("InvalidRequestError", "INVALID_REQUEST", <<>>, "body"))
  ELSE IF IsRejectedInput(body.address)
       THEN Thrown(DomainError("InvalidAddressError", "INVALID_ADDRESS",
                               body.address.text, "field"))
       ELSE serviceValidateAddress(body.address, provider).outcome

\* ------------------------------------------------------------------------
\* Startup configuration and the life of the process
\* ------------------------------------------------------------------------
\* process.env[name]: undefined when the variable is unset, or its text
Unset == [set |-> FALSE, text |-> <<>>]

EnvValue(text) == [set |-> TRUE, text |-> text]

EnvAlphabet == {"1", "a", "-", " "}

EnvValues ==
  {Unset} \cup {EnvValue(text) : text \in UNION {[1..k -> EnvAlphabet] : k \in 0..MaxEnvLen}}

\* the values drawn for a credential: unset, empty, an identifier
CredentialValues == {Unset, EnvValue(<<>>), EnvValue(<<"a">>)}

\* the environments: PORT and CIRCUIT_BREAKER_TIMEOUT stand for the five
\* numeric settings, the other optional variables are unset
Environments ==
  [PORT : EnvValues, SMARTY_AUTH_ID : CredentialValues,
   SMARTY_AUTH_TOKEN : CredentialValues, CIRCUIT_BREAKER_TIMEOUT : EnvValues]

\* !value
IsFalsy(value) == ~value.set \/ value.text = <<>>

IsDigit(c) == c \in {"0", "1", "2", "3", "4", "5", "6", "7", "8", "9"}

DigitValue(c) ==
  CASE c = "0" -> 0 [] c = "1" -> 1 [] c = "2" -> 2 [] c = "3" -> 3 [] c = "4" -> 4
    [] c = "5" -> 5 [] c = "6" -> 6 [] c = "7" -> 7 [] c = "8" -> 8 [] c = "9" -> 9

\* the longest prefix of s made of digits
RECURSIVE DigitPrefix(_)
DigitPrefix(s) ==
  IF s = <<>> \/ ~IsDigit(Head(s)) THEN <<>> ELSE <<Head(s)>> \o DigitPrefix(Tail(s))

\* the number a sequence of digits denotes, acc being the value read so far
RECURSIVE NumberOf(_, _)
NumberOf(digits, acc) ==
  IF digits = <<>> THEN acc ELSE NumberOf(Tail(digits), 10 * acc + DigitValue(Head(digits)))

\* parseInt(value, 10): leading white space is skipped, a sign is read, then
\* the digits that follow; what comes after them is ignored, and the result
\* is NaN when no digit follows
parseInt(text) ==
  LET t == TrimStart(text)
      signed == t # <<>> /\ Head(t) \in {"-", "+"}
      digits == DigitPrefix(IF signed THEN Tail(t) ELSE t)
      n == NumberOf(digits, 0)
  IN IF digits = <<>>
     THEN [nan |-> TRUE, value |-> 0]
     ELSE [nan |-> FALSE, value |-> IF signed /\ Head(t) = "-" THEN 0 - n ELSE n]

\* a validateRequiredEnvVar for which only an unset variable is missing
validateRequiredEnvVar_emptyIsSet(value) ==
  [throws |-> ~value.set, value |-> value.text]

\* validateRequiredEnvVar: throws Error('Required environment variable ...')
\* when the value is falsy
validateRequiredEnvVar(value) ==
  [throws |-> IsFalsy(value), value |-> value.text]

\* getEnvVarAsNumber: the default when the value is falsy, else parseInt;
\* throws Error('... must be a valid number ...') on NaN
getEnvVarAsNumber(value, defaultValue) ==
  IF IsFalsy(value)
  THEN [throws |-> FALSE, value |-> defaultValue]
  ELSE [throws |-> parseInt(value.text).nan, value |-> parseInt(value.text).value]

\* no configuration was returned
NoConfig == [port |-> 0, authId |-> <<>>, authToken |-> <<>>, timeout |-> 0]

\* loadConfig: the settings are read in the order of the object literal; the
\* first throw is caught, logged, and the process exits with code 1
loadConfig(e) ==
  LET port == getEnvVarAsNumber(e.PORT, 3000)
      authId == validateRequiredEnvVar(e.SMARTY_AUTH_ID)
      authToken == validateRequiredEnvVar(e.SMARTY_AUTH_TOKEN)
      cbTimeout == getEnvVarAsNumber(e.CIRCUIT_BREAKER_TIMEOUT, timeout)
  IN IF port.throws \/ authId.throws \/ authToken.throws \/ cbTimeout.throws
     THEN [returns |-> FALSE, caught |-> "Error", exitCode |-> 1, config |-> NoConfig]
     ELSE [returns |-> TRUE, caught |-> "none", exitCode |-> -1,
           config |-> [port |-> port.value, authId |-> authId.value,
                       authToken |-> authToken.value, timeout |-> cbTimeout.value]]

\* the process before loadConfig: its phase (loading, configured,
\* constructed, listening, closing, exited), the configuration, the class of
\* the error loadConfig caught, whether the provider and its breaker exist,
\* the requests served, why it shuts down, whether an uncaught exception
\* occurred, whether the delayed exit is armed, and the exit code (-1 while
\* it runs)
Starting ==
  [phase |-> "loading", config |-> NoConfig, caught |-> "none", provider |-> FALSE,
   served |-> 0, shutdown |-> "none", exception |-> FALSE, exitTimer |-> FALSE,
   exitCode |-> -1]

\* process.exit(code)
Exit(p, code) == [p EXCEPT !.phase = "exited", !.exitCode = code]

\* ------------------------------------------------------------------------
\* The circuit breaker (opossum CircuitBreaker, constructed with timeout,
\* errorThresholdPercentage and resetTimeout)
\* ------------------------------------------------------------------------
\* a breaker that lets every call through in half-open
Admits_everyHalfOpenCall(state_, pendingClose_) ==
  state_ = "closed" \/ state_ = "halfOpen"

\* the breaker lets a call through: closed, or half-open with the trial not
\* yet taken
Admits(state_, pendingClose_) ==
  state_ = "closed" \/ (state_ = "halfOpen" /\ pendingClose_)

\* a breaker that also opens at exactly the threshold
ShouldOpen_atThreshold(state_, fires_, failures_) ==
  \/ failures_ * 100 >= errorThresholdPercentage * fires_
  \/ state_ = "halfOpen"

\* after a failure: the error rate failures / fires * 100 is above the
\* threshold, or the breaker is half-open
ShouldOpen(state_, fires_, failures_) ==
  \/ failures_ * 100 > errorThresholdPercentage * fires_
  \/ state_ = "halfOpen"

\* the reset timer started on entering open
StartResetTimer == resetTimeout

\* a timer after TickMs more milliseconds (-1: not armed)
Elapse(left) == IF left < 0 THEN left ELSE IF left > TickMs THEN left - TickMs ELSE 0

\* ------------------------------------------------------------------------
\* State
\* ------------------------------------------------------------------------
VARIABLES
  input,        \* classifier specification: the caller's address text
  candidate,    \* classifier specification: the provider candidate
  status,       \* classifier specification: the classifier's result, "none" before the call
  corrections,  \* classifier specification: the corrections list built for the result
  state,        \* breaker: "closed", "open" or "halfOpen"
  pendingClose, \* breaker: half-open and the trial call not yet taken
  fires,        \* breaker: calls fired in the current window
  failures,     \* breaker: failures (timeouts included) in the current window
  resetLeft,    \* breaker: ms left on the reset timer, -1 when not armed
  req,          \* the validateAddress calls in flight, one record per request
  last,         \* the validateAddress call that completed last, and its outcome
  svcAddress,   \* service specification: the argument of AddressValidationService.validateAddress
  svcProvider,  \* service specification: what the injected provider does when called
  svcCall,      \* service specification: the provider call made and the outcome of the service call
  edited,       \* normalizer specification: a second string, one edit away from input
  normalized,   \* normalizer specification: the normal forms computed
  httpBody,     \* route specification: the body of the POST /validate-address request
  httpCall,     \* route specification: what the handler did and the reply that was sent
  env,          \* process specification: process.env
  proc          \* process specification: the phase of the process and what it has done

classifierVars == <<input, candidate, status, corrections>>
serviceVars == <<svcAddress, svcProvider, svcCall>>
normalizerVars == <<edited, normalized>>
breakerVars == <<state, pendingClose, fires, failures, resetLeft>>
routeVars == <<httpBody, httpCall>>
processVars == <<env, proc>>
\* the variables of the specifications of single functions
unitVars == <<classifierVars, serviceVars, normalizerVars, routeVars, processVars>>
vars ==
  <<input, candidate, status, corrections, state, pendingClose, fires, failures, resetLeft, req, last,
    svcAddress, svcProvider, svcCall, edited, normalized, httpBody, httpCall,
    env, proc>>

Requests == 1..NumRequests

\* a request that is not inside validateAddress
Idle == [pc |-> "idle", address |-> <<>>, timeLeft |-> -1, firedIn |-> "none"]

\* a call the breaker puts no timer on
Calling_noTimer(address, firedIn) ==
  [pc |-> "calling", address |-> address, timeLeft |-> -1, firedIn |-> firedIn]

\* a request awaiting circuitBreaker.fire, whose callSmartyAPI is in flight
Calling(address, firedIn) ==
  [pc |-> "calling", address |-> address, timeLeft |-> timeout, firedIn |-> firedIn]

\* no call has completed yet
NoCall ==
  [address |-> <<>>, firedIn |-> "none", invoked |-> FALSE, settled |-> "none",
   candidates |-> 0, response |-> <<>>, raw |-> NoError, outcome |-> NoOutcome,
   reply |-> NoReply]

\* a completed call: the breaker state it was fired in, whether callSmartyAPI
\* was invoked, how the breaker settled it (resolved, failed, timedOut,
\* rejected), the candidates fire resolved with or the error it rejected
\* with, what validateAddress returned or threw, and the reply sent to the
\* caller
Completed(address, firedIn, invoked, settled, smartyResponse, raw, outcome) ==
  [address |-> address, firedIn |-> firedIn, invoked |-> invoked,
   settled |-> settled, candidates |-> Len(smartyResponse),
   response |-> smartyResponse, raw |-> raw, outcome |-> outcome,
   reply |-> sendReply(outcome)]

\* the state after construction: breaker closed, nothing in flight
InitBreaker ==
  /\ state = "closed"
  /\ pendingClose = FALSE
  /\ fires = 0
  /\ failures = 0
  /\ resetLeft = -1
  /\ req = [r \in Requests |-> Idle]
  /\ last = NoCall

\* the service specification has not started
ServiceIdle ==
  /\ svcAddress = StringValue(<<>>)
  /\ svcProvider = [resolves |-> TRUE, status |-> "valid", errorClass |-> "none"]
  /\ svcCall = NoServiceCall

\* nothing has been normalized
NotNormalized == [done |-> FALSE, input |-> <<>>, edited |-> <<>>, twice |-> <<>>]

\* the normalizer specification has not started
NormalizerIdle ==
  /\ edited = [kind |-> "none", at |-> 0, text |-> <<>>]
  /\ normalized = NotNormalized

\* the route specification has not started
RouteIdle ==
  /\ httpBody = [what |-> "undefined", typeof |-> "undefined", truthy |-> FALSE,
                 address |-> StringValue(<<>>)]
  /\ httpCall = NoHttpCall

\* the process specification has not started
ProcessIdle ==
  /\ env = [PORT |-> Unset, SMARTY_AUTH_ID |-> EnvValue(<<"a">>),
            SMARTY_AUTH_TOKEN |-> EnvValue(<<"a">>), CIRCUIT_BREAKER_TIMEOUT |-> Unset]
  /\ proc = Starting

\* ------------------------------------------------------------------------
\* Classifier specification: the inputs are drawn in Init, Classify applies
\* determineValidationStatus to them
\* ------------------------------------------------------------------------
ClassifyCandidates ==
  [deliveryLine1 : StringsUpTo(MaxLineLen),
   deliveryLine2 : {<<>>, <<"1">>},
   lastLine      : {<<>>, <<"a">>},
   hasAnalysis   : BOOLEAN,
   dpvMatchCode  : MatchCodes]

InitClassify ==
  /\ input \in StringsUpTo(MaxLen)
  /\ candidate \in ClassifyCandidates
  /\ status = "none"
  /\ corrections = <<>>
  /\ InitBreaker
  /\ ServiceIdle
  /\ NormalizerIdle
  /\ RouteIdle
  /\ ProcessIdle

Classify ==
  /\ status = "none"
  /\ status' = determineValidationStatus(candidate, input)
  /\ corrections' = extractCorrections(input, candidate)
  /\ UNCHANGED <<input, candidate, breakerVars, req, last, serviceVars, normalizerVars,
                 routeVars, processVars>>

NextClassify == Classify

SpecClassify == InitClassify /\ [][NextClassify]_vars

\* ------------------------------------------------------------------------
\* Route specification: the request body and the provider's behaviour are
\* drawn in Init, PostValidateAddress handles the request and sends the reply
\* ------------------------------------------------------------------------
InitRoute ==
  /\ httpBody \in HttpBodies
  /\ httpCall = NoHttpCall
  /\ svcAddress = StringValue(<<>>)
  /\ svcProvider \in ProviderBehaviours
  /\ svcCall = NoServiceCall
  /\ input = <<>>
  /\ candidate = Candidate(<<"a">>, "Y")
  /\ status = "none"
  /\ corrections = <<>>
  /\ InitBreaker
  /\ NormalizerIdle
  /\ ProcessIdle

PostValidateAddress ==
  /\ ~httpCall.done
  /\ httpCall' = HttpCall(postValidateAddress(httpBody, svcProvider))
  /\ UNCHANGED <<httpBody, classifierVars, serviceVars, normalizerVars,
                 breakerVars, req, last, processVars>>

NextRoute == PostValidateAddress

SpecRoute == InitRoute /\ [][NextRoute]_vars

\* ------------------------------------------------------------------------
\* Process specification: the environment is drawn in Init; the process loads
\* its configuration, constructs the provider, listens, serves requests, and
\* shuts down on a signal, an unhandled rejection or an uncaught exception
\* ------------------------------------------------------------------------
InitProcess ==
  /\ env \in Environments
  /\ proc = Starting
  /\ input = <<>>
  /\ candidate = Candidate(<<"a">>, "Y")
  /\ status = "none"
  /\ corrections = <<>>
  /\ InitBreaker
  /\ ServiceIdle
  /\ NormalizerIdle
  /\ RouteIdle

processFrame == <<env, classifierVars, serviceVars, normalizerVars, routeVars,
                  breakerVars, req, last>>

\* const config = loadConfig()
LoadConfig ==
  /\ proc.phase = "loading"
  /\ proc' = IF loadConfig(env).returns
             THEN [proc EXCEPT !.phase = "configured", !.config = loadConfig(env).config]
             ELSE Exit([proc EXCEPT !.caught = loadConfig(env).caught],
                       loadConfig(env).exitCode)
  /\ UNCHANGED processFrame

\* new SmartyAddressProvider(config.smarty, config.circuitBreaker) and
\* new AddressValidationService(smartyProvider)
ConstructProvider ==
  /\ proc.phase = "configured"
  /\ proc' = [proc EXCEPT !.phase = "constructed", !.provider = TRUE]
  /\ UNCHANGED processFrame

\* start(): the plugins are registered and fastify.listen resolves
ListenResolves ==
  /\ proc.phase = "constructed"
  /\ proc' = [proc EXCEPT !.phase = "listening"]
  /\ UNCHANGED processFrame

\* start(): registerPlugins or fastify.listen rejects, process.exit(1)
ListenRejects ==
  /\ proc.phase = "constructed"
  /\ proc' = Exit(proc, 1)
  /\ UNCHANGED processFrame

\* a request is served
Serve ==
  /\ proc.phase = "listening"
  /\ proc.served < MaxServed
  /\ proc' = [proc EXCEPT !.served = @ + 1]
  /\ UNCHANGED processFrame

\* SIGTERM or SIGINT: gracefulShutdown up to `await fastify.close()`
Signal(signal) ==
  /\ proc.phase = "listening"
  /\ proc' = [proc EXCEPT !.phase = "closing", !.shutdown = signal]
  /\ UNCHANGED processFrame

\* an unhandled rejection: the listener of setupGlobalErrorHandlers logs, the
\* listener of index.ts starts gracefulShutdown
UnhandledRejection ==
  /\ proc.phase = "listening"
  /\ proc' = [proc EXCEPT !.phase = "closing", !.shutdown = "unhandledRejection"]
  /\ UNCHANGED processFrame

\* an uncaught exception: the listener of setupGlobalErrorHandlers logs and
\* arms the delayed process.exit(1), then the listener of index.ts logs and
\* starts gracefulShutdown
UncaughtException ==
  /\ proc.phase \in {"listening", "closing"}
  /\ ~proc.exception
  /\ proc' = [proc EXCEPT !.phase = "closing", !.exception = TRUE, !.exitTimer = TRUE,
                          !.shutdown = IF proc.phase = "listening"
                                       THEN "uncaughtException" ELSE @]
  /\ UNCHANGED processFrame

\* gracefulShutdown: fastify.close() resolves, process.exit(0)
CloseResolves ==
  /\ proc.phase = "closing"
  /\ proc' = Exit(proc, 0)
  /\ UNCHANGED processFrame

\* gracefulShutdown: fastify.close() rejects, process.exit(1)
CloseRejects ==
  /\ proc.phase = "closing"
  /\ proc' = Exit(proc, 1)
  /\ UNCHANGED processFrame

\* the timer armed by the uncaught exception fires: process.exit(1)
ExitTimerFires ==
  /\ proc.phase = "closing"
  /\ proc.exitTimer
  /\ proc' = Exit(proc, 1)
  /\ UNCHANGED processFrame

NextProcess ==
  \/ LoadConfig
  \/ ConstructProvider
  \/ ListenResolves
  \/ ListenRejects
  \/ Serve
  \/ \E signal \in {"SIGTERM", "SIGINT"} : Signal(signal)
  \/ UnhandledRejection
  \/ UncaughtException
  \/ CloseResolves
  \/ CloseRejects
  \/ ExitTimerFires

SpecProcess == InitProcess /\ [][NextProcess]_vars

\* ------------------------------------------------------------------------
\* Service specification: the argument and the provider's behaviour are drawn
\* in Init, ServiceValidate applies AddressValidationService.validateAddress
\* ------------------------------------------------------------------------
InitService ==
  /\ svcAddress \in ServiceValues
  /\ svcProvider \in ProviderBehaviours
  /\ svcCall = NoServiceCall
  /\ input = <<>>
  /\ candidate = Candidate(<<"a">>, "Y")
  /\ status = "none"
  /\ corrections = <<>>
  /\ InitBreaker
  /\ NormalizerIdle
  /\ RouteIdle
  /\ ProcessIdle

ServiceValidate ==
  /\ ~svcCall.done
  /\ svcCall' = serviceValidateAddress(svcAddress, svcProvider)
  /\ UNCHANGED <<svcAddress, svcProvider, classifierVars, normalizerVars,
                 breakerVars, req, last, routeVars, processVars>>

NextService == ServiceValidate

SpecService == InitService /\ [][NextService]_vars

\* ------------------------------------------------------------------------
\* Normalizer specification: a string and a second string one edit away from
\* it are drawn in Init, Normalize applies normalizeAddressForComparison
\* ------------------------------------------------------------------------
NormAlphabet == Alphabet \cup {"\t"}

NormStrings == UNION {[1..k -> NormAlphabet] : k \in 0..MaxNormLen}

\* s with the case of its i-th character changed
ToggleCase(s, i) ==
  [s EXCEPT ![i] = IF @ = "a" THEN "A" ELSE IF @ = "A" THEN "a" ELSE @]

\* s with character c inserted after its first i characters
InsertAt(s, i, c) == SubSeq(s, 1, i) \o <<c>> \o SubSeq(s, i + 1, Len(s))

\* the strings one edit away from s: a letter changes case, a punctuation
\* character is inserted, a whitespace character is inserted
Edits(s) ==
  {[kind |-> "case", at |-> i, text |-> ToggleCase(s, i)] :
     i \in {j \in 1..Len(s) : s[j] \in {"a", "A"}}}
  \cup {[kind |-> "punctuation", at |-> i, text |-> InsertAt(s, i, ",")] : i \in 0..Len(s)}
  \cup {[kind |-> "whitespace", at |-> i, text |-> InsertAt(s, i, c)] :
          i \in 0..Len(s), c \in {" ", "\t"}}

InitNormalize ==
  /\ input \in NormStrings
  /\ edited \in Edits(input)
  /\ normalized = NotNormalized
  /\ candidate = Candidate(<<"a">>, "Y")
  /\ status = "none"
  /\ corrections = <<>>
  /\ InitBreaker
  /\ ServiceIdle
  /\ RouteIdle
  /\ ProcessIdle

Normalize ==
  /\ ~normalized.done
  /\ normalized' =
       [done   |-> TRUE,
        input  |-> normalizeAddressForComparison(input),
        edited |-> normalizeAddressForComparison(edited.text),
        twice  |-> normalizeAddressForComparison(normalizeAddressForComparison(input))]
  /\ UNCHANGED <<edited, classifierVars, serviceVars, breakerVars, req, last, routeVars,
                 processVars>>

NextNormalize == Normalize

SpecNormalize == InitNormalize /\ [][NextNormalize]_vars

\* ------------------------------------------------------------------------
\* Adapter specification: concurrent validateAddress calls through the breaker
\* ------------------------------------------------------------------------
Breaker ==
  [state |-> state, pendingClose |-> pendingClose, fires |-> fires,
   failures |-> failures, resetLeft |-> resetLeft]

SetBreaker(b) ==
  /\ state' = b.state
  /\ pendingClose' = b.pendingClose
  /\ fires' = b.fires
  /\ failures' = b.failures
  /\ resetLeft' = b.resetLeft

\* a breaker that opens without starting its reset timer
Open_noResetTimer(b) ==
  IF b.state # "open"
  THEN [b EXCEPT !.state = "open", !.pendingClose = FALSE]
  ELSE b

\* a breaker that trips again, restarting its reset timer, on every failure
\* counted while it is already open
Open_tripAgain(b) ==
  [b EXCEPT !.state = "open", !.pendingClose = FALSE, !.resetLeft = StartResetTimer]

\* the breaker opens and starts its reset timer
Open(b) ==
  IF b.state # "open"
  THEN [b EXCEPT !.state = "open", !.pendingClose = FALSE, !.resetLeft = StartResetTimer]
  ELSE b

\* a breaker that closes and keeps its counters
Close_keepCounters(b) ==
  IF b.state # "closed"
  THEN [b EXCEPT !.state = "closed", !.pendingClose = FALSE, !.resetLeft = -1]
  ELSE b

\* the breaker closes, clears its reset timer and resets its counters
Close(b) ==
  IF b.state # "closed"
  THEN [b EXCEPT !.state = "closed", !.pendingClose = FALSE, !.resetLeft = -1,
                 !.fires = 0, !.failures = 0]
  ELSE b

\* the breaker counts a call; a call let through in half-open takes the trial
Fired(b) ==
  [b EXCEPT !.fires = @ + 1,
            !.pendingClose = IF Admits(b.state, b.pendingClose) THEN FALSE ELSE @]

\* the breaker counts a failure or a timeout and opens when ShouldOpen
Fail(b) ==
  LET c == [b EXCEPT !.failures = @ + 1]
  IN IF ShouldOpen(c.state, c.fires, c.failures) THEN Open(c) ELSE c

\* the breaker sees a success: a success in half-open closes it
Succeed(b) == IF b.state = "halfOpen" THEN Close(b) ELSE b

InitAdapter ==
  /\ input = <<>>
  /\ candidate = Candidate(<<"a">>, "Y")
  /\ status = "none"
  /\ corrections = <<>>
  /\ InitBreaker
  /\ ServiceIdle
  /\ NormalizerIdle
  /\ RouteIdle
  /\ ProcessIdle

\* validateAddress(address) up to `await this.circuitBreaker.fire(address)`:
\* the breaker either invokes callSmartyAPI or rejects at once, and a
\* rejection runs the catch block to its end
Fire(r, a) ==
  /\ req[r].pc = "idle"
  /\ fires < MaxCount
  /\ SetBreaker(Fired(Breaker))
  /\ IF Admits(state, pendingClose)
     THEN /\ req' = [req EXCEPT ![r] = Calling(a, state)]
          /\ last' = last
     ELSE /\ req' = req
          /\ last' = Completed(a, state, FALSE, "rejected", <<>>, OpenBreakerError,
                               validateAddressRejected(a, OpenBreakerError))
  /\ UNCHANGED unitVars

\* an adapter that keeps the address of the call in a field shared by all
\* calls and classifies against the address of the call that completed last
ProviderResponds_sharedAddress(r, smartyResponse) ==
  /\ req[r].pc = "calling"
  /\ SetBreaker(Succeed(Breaker))
  /\ req' = [req EXCEPT ![r] = Idle]
  /\ last' = Completed(req[r].address, req[r].firedIn, TRUE, "resolved",
                       smartyResponse, NoError,
                       validateAddressResolved(
                         IF last.address # <<>> THEN last.address ELSE req[r].address,
                         smartyResponse))
  /\ UNCHANGED unitVars

\* an adapter whose breaker counts an empty candidate list as a failure
ProviderResponds_emptyFails(r, smartyResponse) ==
  /\ req[r].pc = "calling"
  /\ SetBreaker(IF Len(smartyResponse) = 0 THEN Fail(Breaker) ELSE Succeed(Breaker))
  /\ req' = [req EXCEPT ![r] = Idle]
  /\ last' = Completed(req[r].address, req[r].firedIn, TRUE, "resolved",
                       smartyResponse, NoError,
                       validateAddressResolved(req[r].address, smartyResponse))
  /\ UNCHANGED unitVars

\* smartyClient.send resolves: callSmartyAPI returns lookup.result || [], the
\* breaker resolves and validateAddress runs to its end
ProviderResponds(r, smartyResponse) ==
  /\ req[r].pc = "calling"
  /\ SetBreaker(Succeed(Breaker))
  /\ req' = [req EXCEPT ![r] = Idle]
  /\ last' = Completed(req[r].address, req[r].firedIn, TRUE, "resolved",
                       smartyResponse, NoError,
                       validateAddressResolved(req[r].address, smartyResponse))
  /\ UNCHANGED unitVars

\* smartyClient.send rejects: the breaker counts the failure and rejects with
\* the provider's error, which validateAddress catches
ProviderFails(r, error) ==
  /\ req[r].pc = "calling"
  /\ SetBreaker(Fail(Breaker))
  /\ req' = [req EXCEPT ![r] = Idle]
  /\ last' = Completed(req[r].address, req[r].firedIn, TRUE, "failed", <<>>, error,
                       validateAddressRejected(req[r].address, error))
  /\ UNCHANGED unitVars

\* the breaker's per-call timer expires before the provider answered: the
\* breaker counts the failure and rejects with its timeout error
CallTimesOut(r) ==
  /\ req[r].pc = "calling"
  /\ req[r].timeLeft = 0
  /\ SetBreaker(Fail(Breaker))
  /\ req' = [req EXCEPT ![r] = Idle]
  /\ last' = Completed(req[r].address, req[r].firedIn, TRUE, "timedOut", <<>>,
                       BreakerTimeoutError,
                       validateAddressRejected(req[r].address, BreakerTimeoutError))
  /\ UNCHANGED unitVars

\* the reset timer expires: open -> half-open, one trial call allowed
ResetTimerFires ==
  /\ state = "open"
  /\ resetLeft = 0
  /\ state' = "halfOpen"
  /\ pendingClose' = TRUE
  /\ resetLeft' = -1
  /\ UNCHANGED <<fires, failures, req, last, unitVars>>

\* TickMs of time pass; a timer that has expired fires before time moves on
Tick ==
  /\ resetLeft # 0
  /\ \A r \in Requests : req[r].timeLeft # 0
  /\ resetLeft > 0 \/ \E r \in Requests : req[r].timeLeft > 0
  /\ resetLeft' = Elapse(resetLeft)
  /\ req' = [r \in Requests |-> [req[r] EXCEPT !.timeLeft = Elapse(@)]]
  /\ UNCHANGED <<state, pendingClose, fires, failures, last, unitVars>>

\* the evaluation window rolls over: the counted calls leave it
WindowRolls ==
  /\ fires > 0 \/ failures > 0
  /\ fires' = 0
  /\ failures' = 0
  /\ UNCHANGED <<state, pendingClose, resetLeft, req, last, unitVars>>

Next ==
  \/ \E r \in Requests, a \in Addresses : Fire(r, a)
  \/ \E r \in Requests, smartyResponse \in Responses : ProviderResponds(r, smartyResponse)
  \/ \E r \in Requests, error \in ProviderErrors : ProviderFails(r, error)
  \/ \E r \in Requests : CallTimesOut(r)
  \/ ResetTimerFires
  \/ Tick
  \/ WindowRolls

Spec == InitAdapter /\ [][Next]_vars

\* timers fire and time passes
FairSpec ==
  /\ Spec
  /\ WF_vars(Tick)
  /\ WF_vars(ResetTimerFires)
  /\ \A r \in Requests : WF_vars(CallTimesOut(r))

\* ------------------------------------------------------------------------
\* Properties of the status classifier (checked under SpecClassify)
\* ------------------------------------------------------------------------
\* the classifier has been applied
Classified == status # "none"

\* C1: for every match signal the classifier returns the base status of the
\* table (Y -> valid, S -> corrected, D -> unverifiable, anything else ->
\* invalid) whatever the address text, the only exception being that Y may be
\* promoted to corrected.
C1_BaseMapping ==
  Classified =>
    /\ (candidate.hasAnalysis /\ candidate.dpvMatchCode = "Y")
         => status \in {"valid", "corrected"}
    /\ (candidate.hasAnalysis /\ candidate.dpvMatchCode = "S")
         => status = "corrected"
    /\ (candidate.hasAnalysis /\ candidate.dpvMatchCode = "D")
         => status = "unverifiable"
    /\ (~candidate.hasAnalysis \/ candidate.dpvMatchCode \notin {"Y", "S", "D"})
         => status = "invalid"

\* an S candidate whose standardized text equals the input was classified
\* corrected: the table decided, not the text
C1_Witness ==
  /\ Classified
  /\ candidate.hasAnalysis
  /\ candidate.dpvMatchCode = "S"
  /\ ~hasAddressCorrections(input, candidate)
  /\ status = "corrected"

\* C2: with match signal Y the classifier returns corrected when the
\* normalized input and the normalized standardized address are unequal and
\* valid when they are equal.
C2_PromotionRule ==
  (Classified /\ candidate.hasAnalysis /\ candidate.dpvMatchCode = "Y") =>
    LET normalizedOriginal == normalizeAddressForComparison(input)
        normalizedStandardized ==
          normalizeAddressForComparison(StandardizedFull(candidate))
    IN /\ normalizedOriginal # normalizedStandardized => status = "corrected"
       /\ normalizedOriginal = normalizedStandardized => status = "valid"

\* a Y candidate whose standardized text differs from the input was promoted
C2_Witness ==
  /\ Classified
  /\ candidate.hasAnalysis
  /\ candidate.dpvMatchCode = "Y"
  /\ input = <<"a", "1">>
  /\ candidate.deliveryLine1 = <<"a">>
  /\ candidate.deliveryLine2 = <<>>
  /\ candidate.lastLine = <<>>
  /\ status = "corrected"

\* C3: for the signals S, D, N, empty and unknown the status does not depend
\* on the address text: every other input gives the same status, and D always
\* yields unverifiable.
C3_NoOtherPromotion ==
  (Classified /\ candidate.hasAnalysis /\ candidate.dpvMatchCode # "Y") =>
    /\ \A other \in StringsUpTo(MaxLen) :
         determineValidationStatus(candidate, other) = status
    /\ candidate.dpvMatchCode = "D" => status = "unverifiable"

\* a D candidate whose standardized text differs from the input stayed
\* unverifiable
C3_Witness ==
  /\ Classified
  /\ candidate.hasAnalysis
  /\ candidate.dpvMatchCode = "D"
  /\ hasAddressCorrections(input, candidate)
  /\ status = "unverifiable"

Settles(r) == req[r].pc = "calling" /\ req'[r].pc = "idle"

C5_OpenFailsFast ==
  /\ \A r \in Requests : req[r].firedIn # "open"
  /\ last.firedIn = "open" =>
       /\ ~last.invoked
       /\ last.outcome.kind = "error"
       /\ last.outcome.error.class = "CircuitBreakerError"

\* a call was fired while the breaker was open and was rejected
C5_Witness ==
  /\ state = "open"
  /\ last.firedIn = "open"
  /\ last.outcome.error.class = "CircuitBreakerError"

\* C6: a provider call that exceeds the per-call timeout makes
\* validateAddress fail with TimeoutError (and the breaker counts it as a
\* failure).
C6_TimeoutRaisesTimeoutError ==
  last.settled = "timedOut" => last.outcome.error.class = "TimeoutError"

C9_OpenLeadsToHalfOpen ==
  /\ (state = "open") ~> (state = "halfOpen")
  /\ [][state = "open" /\ state' # "open" =>
          /\ state' = "halfOpen"
          /\ resetLeft = 0
          /\ req' = req
          /\ last' = last]_vars

\* the reset timer has moved the breaker to half-open
C9_Witness ==
  /\ state = "halfOpen"
  /\ pendingClose
  /\ resetLeft = -1

\* C10: with several requests arriving while the breaker is half-open, at
\* most one trial call is in flight; the others do not reach the provider.
C10_OneTrialCall ==
  /\ Cardinality({r \in Requests :
                    req[r].pc = "calling" /\ req[r].firedIn = "halfOpen"}) <= 1
  /\ (state = "halfOpen" /\ ~pendingClose) =>
        \E r \in Requests : req[r].pc = "calling" /\ req[r].firedIn = "halfOpen"
  /\ (last.firedIn = "halfOpen" /\ last.settled = "rejected") =>
       /\ ~last.invoked
       /\ last.outcome.error.class = "CircuitBreakerError"

\* one trial call is in flight and a second request fired in half-open was
\* rejected without reaching the provider
C10_Witness ==
  /\ state = "halfOpen"
  /\ \E r \in Requests : req[r].pc = "calling" /\ req[r].firedIn = "halfOpen"
  /\ last.firedIn = "halfOpen"
  /\ last.settled = "rejected"
  /\ ~last.invoked

\* the trial call of request r settles in this step
TrialSettles(r) ==
  /\ req[r].pc = "calling"
  /\ req[r].firedIn = "halfOpen"
  /\ req'[r].pc = "idle"

\* C11: in half-open, the trial call succeeding closes the breaker and resets
\* its counters, the trial call failing (or timing out) reopens it and
\* restarts the reset timer, and nothing else moves the breaker out of
\* half-open.
C11_HalfOpenTransitions ==
  [][state = "halfOpen" =>
       /\ (\E r \in Requests : TrialSettles(r)) =>
            \/ /\ last'.settled = "resolved"
               /\ state' = "closed"
               /\ fires' = 0
               /\ failures' = 0
               /\ resetLeft' = -1
            \/ /\ last'.settled \in {"failed", "timedOut"}
               /\ state' = "open"
               /\ resetLeft' = resetTimeout
       /\ state' # "halfOpen" => \E r \in Requests : TrialSettles(r)]_vars

\* the trial call succeeded after earlier calls had been counted, and the
\* breaker is closed with its counters at zero
C11_Witness ==
  /\ state = "closed"
  /\ last.firedIn = "halfOpen"
  /\ last.settled = "resolved"
  /\ fires = 0
  /\ failures = 0
  /\ resetLeft = -1

\* C12: concurrent outcomes act on the shared breaker one at a time. Every
\* step moves each counter by at most one (or clears it), the breaker trips
\* only from a state that is not open and starts its reset timer then, a
\* failure that arrives while it is already open neither trips it again nor
\* restarts the timer, and it closes only from half-open.
C12_AtomicTransitions ==
  [][/\ fires' \in {fires, fires + 1, 0}
     /\ failures' \in {failures, failures + 1, 0}
     /\ (state # "open" /\ state' = "open") =>
          /\ resetLeft' = resetTimeout
          /\ \E r \in Requests : Settles(r)
          /\ last'.settled \in {"failed", "timedOut"}
     /\ (state = "open" /\ \E r \in Requests : Settles(r)) =>
          /\ state' = "open"
          /\ resetLeft' = resetLeft
          /\ pendingClose' = pendingClose
     /\ (state # "closed" /\ state' = "closed") => state = "halfOpen"]_vars

\* two calls were in flight together; the first failure tripped the breaker
\* and the second one arrived, time having passed, while it was open: the
\* failure was counted and the reset timer kept running
C12_Witness ==
  /\ state = "open"
  /\ failures = 2
  /\ last.firedIn = "closed"
  /\ last.settled \in {"failed", "timedOut"}
  /\ resetLeft > 0
  /\ resetLeft < resetTimeout

\* C15: every result of status valid, corrected or unverifiable that the
\* adapter returns carries a validated (standardized) address.
C15_ResultCarriesValidated ==
  (last.outcome.kind = "result"
     /\ last.outcome.status \in {"valid", "corrected", "unverifiable"}) =>
    /\ last.outcome.hasValidated
    /\ last.outcome.validated # NoValidated

\* a result of status unverifiable was returned with its validated address
C15_Witness ==
  /\ last.settled = "resolved"
  /\ last.outcome.status = "unverifiable"
  /\ last.outcome.hasValidated
  /\ last.outcome.validated = mapToValidatedAddress(Candidate(<<"a", "1">>, "D"))

\* C16: a first candidate whose match signal is N, empty or unknown makes
\* validateAddress return a result of status invalid, not fail, and the
\* caller is sent a success reply carrying that result, not an error reply.
C16_InvalidIsSuccess ==
  [][\A r \in Requests : Settles(r) => \A smartyResponse \in Responses :
       (/\ Len(smartyResponse) > 0
        /\ smartyResponse[1].dpvMatchCode \in {"N", "", "X"}
        /\ ProviderResponds(r, smartyResponse)) =>
         /\ last'.outcome.kind = "result"
         /\ last'.outcome.status = "invalid"
         /\ last'.outcome.error = NoError
         /\ last'.reply.kind = "result"
         /\ last'.reply.statusCode = 200
         /\ last'.reply.status = "invalid"]_vars

\* a call resolved with a candidate and the caller was sent 200 with a
\* result of status invalid
C16_Witness ==
  /\ last.settled = "resolved"
  /\ last.candidates = 1
  /\ last.outcome.status = "invalid"
  /\ last.reply.statusCode = 200
  /\ last.reply.status = "invalid"

\* C17: every completed validateAddress call has exactly one outcome: a
\* result with one of the four statuses and no error, or one typed error and
\* no result; the reply sent is of the same kind.
C17_ExactlyOneOutcome ==
  last.settled # "none" =>
    \/ /\ last.outcome.kind = "result"
       /\ last.outcome.status \in {"valid", "corrected", "unverifiable", "invalid"}
       /\ last.outcome.error = NoError
       /\ last.reply.kind = "result"
       /\ last.reply.code = ""
    \/ /\ last.outcome.kind = "error"
       /\ last.outcome.status = "none"
       /\ ~last.outcome.hasValidated
       /\ last.outcome.error.class \in DomainErrorClasses
       /\ last.reply.kind = "error"
       /\ last.reply.status = "none"

\* a provider failure completed as an error and nothing else: no status, no
\* validated address, an error reply
C17_Witness ==
  /\ last.settled = "failed"
  /\ last.outcome.kind = "error"
  /\ last.outcome.status = "none"
  /\ last.outcome.error.class \in DomainErrorClasses
  /\ last.reply.kind = "error"

\* C22: with several candidates in the response, the result is determined by
\* the input and the first candidate: every response that agrees on the first
\* candidate gives the result that was returned.
C22_FirstCandidateOnly ==
  (last.settled = "resolved" /\ last.candidates > 0) =>
    /\ last.outcome.kind = "result"
    /\ \A other \in Responses :
         (Len(other) > 0 /\ other[1] = last.response[1]) =>
           validateAddressResolved(last.address, other) = last.outcome

\* a response of two candidates, S first and Y second, gave the status of the
\* first
C22_Witness ==
  /\ last.settled = "resolved"
  /\ last.candidates = 2
  /\ last.address = <<"a">>
  /\ last.outcome.status = "corrected"

\* C26: whatever the interleaving, a request that completes with a result
\* gets the status, the original text and the validated address that follow
\* from its own address and the first candidate of its own response; the
\* other requests in flight and the state of the breaker play no part.
C26_OwnInputAndResponseOnly ==
  (last.settled = "resolved" /\ last.candidates > 0) =>
    /\ last.outcome.kind = "result"
    /\ last.outcome.original = last.address
    /\ last.outcome.status =
         determineValidationStatus(last.response[1], last.address)
    /\ last.outcome.validated = mapToValidatedAddress(last.response[1])

\* a call for "a1" completed with a result while another request, for "a",
\* was in flight and after a call for "a" had completed
C26_Witness ==
  /\ last.settled = "resolved"
  /\ last.address = <<"a", "1">>
  /\ last.outcome.kind = "result"
  /\ last.outcome.status = "corrected"
  /\ last.candidates = 1
  /\ \E r \in Requests : req[r].pc = "calling" /\ req[r].address = <<"a">>

\* C29: a response with zero candidates is a success for the breaker: the
\* step that receives it counts no failure and never opens the breaker (in
\* half-open it closes it), and the InvalidAddressError is raised after the
\* breaker call resolved.
C29_NoCandidatesIsBreakerSuccess ==
  [][\A r \in Requests : (Settles(r) /\ ProviderResponds(r, <<>>)) =>
       /\ failures' \in {failures, 0}
       /\ state = "closed" => state' = "closed"
       /\ state = "halfOpen" => state' = "closed"
       /\ state' = "open" => state = "open"
       /\ last'.settled = "resolved"
       /\ last'.invoked
       /\ last'.outcome.error.class = "InvalidAddressError"]_vars

\* three calls were fired, the last one answered with zero candidates, and
\* the breaker is closed with no failure counted
C29_Witness ==
  /\ state = "closed"
  /\ fires = 3
  /\ failures = 0
  /\ last.firedIn = "closed"
  /\ last.settled = "resolved"
  /\ last.candidates = 0
  /\ last.outcome.error.reason = "no_candidates_returned"

\* C27: every validateAddress call eventually completes, with a result or
\* with one of the typed errors; a call whose provider never answers is
\* ended by the breaker's per-call timer, whatever the caller does. No
\* request stays inside a call for ever: each one is idle again and again,
\* and the step that ends a call leaves a result or a typed error.
C27_EveryCallCompletes ==
  /\ \A r \in Requests : []<>(req[r].pc = "idle")
  /\ [][\A r \in Requests : Settles(r) =>
          \/ last'.outcome.kind = "result"
          \/ /\ last'.outcome.kind = "error"
             /\ last'.outcome.error.class \in DomainErrorClasses]_vars

\* a call whose provider never answered was ended by the per-call timer and
\* completed with a typed error
C27_Witness ==
  /\ last.settled = "timedOut"
  /\ last.invoked
  /\ last.outcome.kind = "error"
  /\ last.outcome.error.class \in DomainErrorClasses
  /\ \A r \in Requests : req[r].pc = "idle"

\* C28 as stated: TimeoutError is raised only for calls ended by the
\* breaker's per-call timer; a call the open breaker rejected gets
\* CircuitBreakerError, and a call that failed for another reason never gets
\* TimeoutError.
C28_TimeoutErrorOnlyForTimeouts ==
  /\ (last.outcome.kind = "error" /\ last.outcome.error.class = "TimeoutError") =>
       last.settled = "timedOut"
  /\ last.settled = "rejected" => last.outcome.error.class = "CircuitBreakerError"
  /\ last.settled = "failed" => last.outcome.error.class # "TimeoutError"

\* ------------------------------------------------------------------------
\* Properties of AddressValidationService (checked under SpecService)
\* ------------------------------------------------------------------------
\* the argument is not a string, or is a string that is empty or all blanks
BadInput ==
  \/ svcAddress.what # "string"
  \/ \A i \in 1..Len(svcAddress.text) : svcAddress.text[i] = " "

\* C13: called with an empty string, a whitespace-only string, null,
\* undefined or a value that is not a string, the service fails with
\* InvalidAddressError (an input error) and does not call the provider.
C13_BadInputIsRejected ==
  (svcCall.done /\ BadInput) =>
    /\ ~svcCall.called
    /\ svcCall.outcome.kind = "error"
    /\ svcCall.outcome.error.class = "InvalidAddressError"
    /\ svcCall.outcome.error.reason = "input"

\* a whitespace-only string was rejected without a provider call
C13_Witness ==
  /\ svcCall.done
  /\ svcAddress = StringValue(<<" ", " ">>)
  /\ ~svcCall.called
  /\ svcCall.outcome.error.class = "InvalidAddressError"

\* C14: an error the provider raises leaves the service as that same error;
\* the service neither swallows it nor answers with a result.
C14_ProviderErrorsPropagate ==
  (svcCall.done /\ svcCall.called /\ ~svcProvider.resolves) =>
    /\ svcCall.outcome.kind = "error"
    /\ svcCall.outcome = Thrown(ProviderError(svcProvider, svcCall.calledWith))

\* the provider rejected with a plain Error and the service rejected with it
C14_Witness ==
  /\ svcCall.done
  /\ svcCall.called
  /\ svcProvider.errorClass = "Error"
  /\ svcCall.outcome.kind = "error"
  /\ svcCall.outcome.error.class = "Error"

\* C25: every address the service passes to the provider is non-empty, has
\* no leading or trailing white space, and is the trimmed argument.
C25_ProviderGetsTrimmedAddress ==
  (svcCall.done /\ svcCall.called) =>
    /\ svcCall.calledWith # <<>>
    /\ ~IsSpaceChar(svcCall.calledWith[1])
    /\ ~IsSpaceChar(svcCall.calledWith[Len(svcCall.calledWith)])
    /\ svcCall.calledWith = Trim(svcAddress.text)
    /\ svcAddress.what = "string"

\* the argument " a" reached the provider as "a"
C25_Witness ==
  /\ svcCall.done
  /\ svcCall.called
  /\ svcAddress.text = <<" ", "a">>
  /\ svcCall.calledWith = <<"a">>

\* ------------------------------------------------------------------------
\* Properties of the HTTP boundary (checked under SpecRoute)
\* ------------------------------------------------------------------------
\* C23: every AppError that reaches the error handler is answered with the
\* error's own status code (InvalidAddress and InvalidRequest 400,
\* CircuitBreaker 503, Timeout 408, ExternalService 502) and a body that
\* carries the error's code, its message, and its context as details.
C23_AppErrorReply ==
  (httpCall.done /\ httpCall.outcome.kind = "error"
     /\ httpCall.outcome.error.class \in AppErrorClasses) =>
    LET error == httpCall.outcome.error
        reply == httpCall.reply
    IN /\ reply.kind = "error"
       /\ reply.statusCode = StatusCodeOf(error.class)
       /\ error.class \in {"InvalidAddressError", "InvalidRequestError"} =>
            reply.statusCode = 400
       /\ error.class = "CircuitBreakerError" => reply.statusCode = 503
       /\ error.class = "TimeoutError" => reply.statusCode = 408
       /\ error.class = "ExternalServiceError" => reply.statusCode = 502
       /\ reply.code = error.code
       /\ reply.message = error.message
       /\ reply.details = ContextOf(error)

\* the provider rejected the trimmed address "a" with a CircuitBreakerError
\* and the reply is 503 CIRCUIT_BREAKER_OPEN with the address in the details
C23_Witness ==
  /\ httpCall.done
  /\ httpBody.what = "object"
  /\ httpBody.address.text = <<" ", "a">>
  /\ httpCall.outcome.kind = "error"
  /\ httpCall.outcome.error.class = "CircuitBreakerError"
  /\ httpCall.reply.statusCode = 503
  /\ httpCall.reply.code = "CIRCUIT_BREAKER_OPEN"
  /\ httpCall.reply.details.originalAddress = <<"a">>

Kept(c) == c \in {"a", "A", "1", "_"}

\* the maximal runs of kept characters of s, lower-cased; cur is the run
\* being read
RECURSIVE Words(_, _)
Words(s, cur) ==
  IF s = <<>> THEN (IF cur = <<>> THEN <<>> ELSE <<cur>>)
  ELSE IF Kept(s[1])
       THEN Words(Tail(s), Append(cur, IF s[1] = "A" THEN "a" ELSE s[1]))
       ELSE (IF cur = <<>> THEN <<>> ELSE <<cur>>) \o Words(Tail(s), <<>>)

C19_Idempotent ==
  normalized.done => normalized.twice = normalized.input

\* a string that normalization changes was normalized twice
C19_Witness ==
  /\ normalized.done
  /\ input = <<"A", ",", " ">>
  /\ normalized.input = <<"a">>
  /\ normalized.twice = <<"a">>

\* the edit changed the string next to a separator or at an end: it does not
\* fall between two kept characters
AtSeparator ==
  \/ edited.at = 0
  \/ edited.at = Len(input)
  \/ ~Kept(input[edited.at])
  \/ ~Kept(input[edited.at + 1])

IsNumber(text) ==
  /\ text # <<>>
  /\ \E first \in {1, 2} :
       /\ first <= Len(text)
       /\ first = 2 => text[1] \in {"-", "+"}
       /\ \A i \in first..Len(text) : IsDigit(text[i])

\* the text begins, after blanks and an optional sign, with a digit
BeginsWithNumber(text) ==
  \E i \in 1..Len(text) :
    /\ IsDigit(text[i])
    /\ \A j \in 1..(i - 1) : text[j] = " " \/ (j = i - 1 /\ text[j] \in {"-", "+"})

NumericSettings == {"PORT", "CIRCUIT_BREAKER_TIMEOUT"}

Credentials == {"SMARTY_AUTH_ID", "SMARTY_AUTH_TOKEN"}

\* startup halted: no configuration, no provider or breaker, no request served
Halted ==
  /\ proc.phase = "exited"
  /\ proc.config = NoConfig
  /\ ~proc.provider
  /\ proc.served = 0

C30_NonZeroExitAfterException ==
  (proc.phase = "exited" /\ proc.exception) => proc.exitCode # 0

====
